---- MODULE Spec2Model ----
(***************************************************************************)
(* Model of deduplicate_simple.py: product records are keyed by            *)
(* page_url + '|||' + the first 20 characters of a normalized description, *)
(* grouped by that key, and every group is merged into one record.         *)
(*                                                                         *)
(* A Python value is a record [t |-> type tag, v |-> sequence of strings]: *)
(* a str holds its characters, a list or ndarray holds its elements, the   *)
(* other kinds hold a printed form.  A data frame is a sequence of rows,   *)
(* a row is a function from column names to values.                        *)
(***************************************************************************)
EXTENDS Integers, Sequences, FiniteSets, TLC

VARIABLES
    df,            \* the data frame being deduplicated (rows in index order)
    input,         \* the rows as loaded for this pass (df before line 35)
    deduplicated,  \* the list of merged rows built by the grouping loop
    processed,     \* number of groups handled so far
    result,        \* the final data frame (rows), <<>> until built
    previous,      \* result of the previous pass (<<>> on the first pass)
    pass,          \* which run of the script this is
    pc             \* position in the script

vars == <<df, input, deduplicated, processed, result, previous, pass, pc>>

(***************************************************************************)
(* Bounds of the model.                                                    *)
(***************************************************************************)
MaxRecords == 3
MaxPasses == 2

(***************************************************************************)
(* Program constants.                                                      *)
(***************************************************************************)
PrefixLen == 20
MinDescLen == 3

(***************************************************************************)
(* Python values.                                                          *)
(***************************************************************************)
Str(s) == [t |-> "str", v |-> s]
None == [t |-> "none", v |-> <<>>]
NaN == [t |-> "nan", v |-> <<>>]
PyInt(s) == [t |-> "int", v |-> <<s>>]
PyBool(s) == [t |-> "bool", v |-> <<s>>]
List(elems) == [t |-> "list", v |-> elems]
NdArray(elems) == [t |-> "ndarray", v |-> elems]
Obj == [t |-> "obj", v |-> <<>>]

\* elements of a list or ndarray that pd.isna counts as missing
MissingElems == {"nan", "None"}

(***************************************************************************)
(* str methods, on sequences of characters.                                *)
(***************************************************************************)
Whitespace == {" ", "\t", "\n"}

Uppercase == <<"A", "B", "C", "D", "E", "F", "G", "H", "I", "J", "K", "L", "M",
               "N", "O", "P", "Q", "R", "S", "T", "U", "V", "W", "X", "Y", "Z">>
Lowercase == <<"a", "b", "c", "d", "e", "f", "g", "h", "i", "j", "k", "l", "m",
               "n", "o", "p", "q", "r", "s", "t", "u", "v", "w", "x", "y", "z">>

LowerChar(c) ==
    IF \E i \in 1..Len(Uppercase) : Uppercase[i] = c
        THEN Lowercase[CHOOSE i \in 1..Len(Uppercase) : Uppercase[i] = c]
        ELSE c

\* str.lower()
Lower(s) == [i \in 1..Len(s) |-> LowerChar(s[i])]

\* the characters of the model in code point order, for the comparison of str
CodePoints == <<"\t", "\n", " ">> \o Uppercase \o <<"_">> \o Lowercase \o <<"|">>

Ord(c) == CHOOSE i \in 1..Len(CodePoints) : CodePoints[i] = c

\* a < b for two str
RECURSIVE StrLess(_, _)
StrLess(a, b) ==
    IF b = <<>> THEN FALSE
    ELSE IF a = <<>> THEN TRUE
    ELSE IF Head(a) = Head(b) THEN StrLess(Tail(a), Tail(b))
    ELSE Ord(Head(a)) < Ord(Head(b))

RECURSIVE LStrip(_)
LStrip(s) == IF s # <<>> /\ Head(s) \in Whitespace THEN LStrip(Tail(s)) ELSE s

RECURSIVE RStrip(_)
RStrip(s) ==
    IF s # <<>> /\ s[Len(s)] \in Whitespace THEN RStrip(SubSeq(s, 1, Len(s) - 1)) ELSE s

\* str.strip()
Strip(s) == RStrip(LStrip(s))

\* ' '.join(s.split()) for an s without leading or trailing whitespace:
\* every run of whitespace becomes one space
RECURSIVE JoinSplit(_)
JoinSplit(s) ==
    IF s = <<>> THEN <<>>
    ELSE IF Head(s) \in Whitespace
        THEN (IF LStrip(s) = <<>> THEN <<>> ELSE <<" ">> \o JoinSplit(LStrip(s)))
        ELSE <<Head(s)>> \o JoinSplit(Tail(s))

\* s[:n]
Slice(s, n) == SubSeq(s, 1, IF Len(s) < n THEN Len(s) ELSE n)

(***************************************************************************)
(* Key derivation.                                                         *)
(***************************************************************************)
CandidateFields == <<"product_summary", "description", "product_title", "product_name">>

\* bool(value) raises ValueError for an ndarray of more than one element
TruthRaises(value) == value.t = "ndarray" /\ Len(value.v) > 1

\* value and isinstance(value, str) and len(value.strip()) >= 3: of the values
\* that are a str, the empty one is the falsy one
Qualifies(value) ==
    value.t = "str" /\ value.v # <<>> /\ Len(Strip(value.v)) >= MinDescLen

RECURSIVE DescriptionFrom(_, _)
DescriptionFrom(row, i) ==
    IF i > Len(CandidateFields) THEN <<>>
    ELSE LET field == CandidateFields[i] IN
         IF field \in DOMAIN row /\ Qualifies(row[field])
            THEN Strip(row[field].v)
            ELSE DescriptionFrom(row, i + 1)

get_description(row) == DescriptionFrom(row, 1)

\* get_description(row) raises: a candidate field reached by the loop holds a
\* value whose truth value is ambiguous
RECURSIVE DescriptionRaisesFrom(_, _)
DescriptionRaisesFrom(row, i) ==
    IF i > Len(CandidateFields) THEN FALSE
    ELSE LET field == CandidateFields[i] IN
         IF field \notin DOMAIN row THEN DescriptionRaisesFrom(row, i + 1)
         ELSE IF TruthRaises(row[field]) THEN TRUE
         ELSE IF Qualifies(row[field]) THEN FALSE
         ELSE DescriptionRaisesFrom(row, i + 1)

normalize(text) == IF text = <<>> THEN <<>> ELSE JoinSplit(Strip(Lower(text)))

Delimiter == <<"|", "|", "|">>
Sentinel == <<"N", "O", "_", "D", "E", "S", "C">>

\* Series.str[:20].fillna('NO_DESC'): the slice of a str is a str (the empty
\* str for the empty str), and fillna replaces only missing entries
desc_prefix(normalized) ==
    LET sliced == IF normalized.t = "str" THEN Str(Slice(normalized.v, PrefixLen)) ELSE NaN
    IN IF sliced.t = "nan" THEN Str(Sentinel) ELSE sliced

\* df['page_url'] + '|||' + df['desc_prefix'], element-wise: a missing
\* page_url gives a missing key
dedup_key(url, prefix) ==
    IF url.t = "str" /\ prefix.t = "str"
        THEN Str(url.v \o Delimiter \o prefix.v)
        ELSE NaN

(***************************************************************************)
(* Emptiness test and merge of one group.                                  *)
(***************************************************************************)
\* `if pd.isna(value)` is taken: a missing scalar, or a list or ndarray of
\* exactly one element that is missing (pd.isna maps a sequence to an array
\* of booleans: the truth value of an array of one element is the element,
\* that of a longer one raises ValueError, which the bare except swallows)
IsnaBranch(value) ==
    CASE value.t \in {"none", "nan"} -> TRUE
      [] value.t \in {"list", "ndarray"} ->
            Len(value.v) = 1 /\ value.v[1] \in MissingElems
      [] OTHER -> FALSE

is_empty(value) ==
    IF value.t = "none" THEN TRUE
    ELSE IF value.t = "str" /\ Strip(value.v) = <<>> THEN TRUE
    ELSE IF value.t = "list" /\ Len(value.v) = 0 THEN TRUE
    ELSE IF value.t = "ndarray" /\ Len(value.v) = 0 THEN TRUE
    ELSE IF IsnaBranch(value) THEN TRUE
    ELSE FALSE

temp_cols == {"description", "normalized_desc", "desc_prefix", "dedup_key"}

\* the count of lines 83-84 for one row
CountNonEmpty(row) ==
    Cardinality({col \in DOMAIN row : col \notin temp_cols /\ ~is_empty(row[col])})

\* the loop of lines 82-87 from position i on
RECURSIVE BestIdxFrom(_, _, _, _)
BestIdxFrom(group, i, best_idx, best_count) ==
    IF i > Len(group) THEN best_idx
    ELSE LET count == CountNonEmpty(group[i]) IN
         IF count > best_count
            THEN BestIdxFrom(group, i + 1, i, count)
            ELSE BestIdxFrom(group, i + 1, best_idx, best_count)

\* faulty variant: on equal counts the later record wins
BestIdx_LastMax(group) ==
    CHOOSE i \in 1..Len(group) :
        /\ \A j \in 1..Len(group) : CountNonEmpty(group[j]) <= CountNonEmpty(group[i])
        /\ \A j \in (i + 1)..Len(group) : CountNonEmpty(group[j]) < CountNonEmpty(group[i])

BestIdx(group) == BestIdxFrom(group, 1, 0, -1)

\* faulty variant: the fill reads the other row at the wrong column
FillFrom_WrongColumn(merged, other) ==
    [col \in DOMAIN merged |->
        IF col \in temp_cols THEN merged[col]
        ELSE IF is_empty(merged[col]) /\ ~is_empty(other[col]) THEN other["dedup_key"]
        ELSE merged[col]]

\* the inner loop of lines 96-100: merged filled from one other row
FillFrom(merged, other) ==
    [col \in DOMAIN merged |->
        IF col \in temp_cols THEN merged[col]
        ELSE IF is_empty(merged[col]) /\ ~is_empty(other[col]) THEN other[col]
        ELSE merged[col]]

\* the outer loop of lines 93-100 from position i on
RECURSIVE FillLoop(_, _, _, _)
FillLoop(group, i, best_idx, merged) ==
    IF i > Len(group) THEN merged
    ELSE IF i = best_idx THEN FillLoop(group, i + 1, best_idx, merged)
    ELSE FillLoop(group, i + 1, best_idx, FillFrom(merged, group[i]))

\* faulty variant: the first record of the group is kept, nothing is filled
merge_group_KeepFirst(group) == group[1]

merge_group(group) ==
    IF Len(group) = 1 THEN group[1]
    ELSE LET best_idx == BestIdx(group)
         IN FillLoop(group, 1, best_idx, group[best_idx])

(***************************************************************************)
(* df.groupby('dedup_key'): the groups in sorted key order, rows with a    *)
(* missing key left out, the rows of a group in index order.               *)
(***************************************************************************)
KeysOf(frame) ==
    {frame[i]["dedup_key"].v : i \in {j \in 1..Len(frame) : frame[j]["dedup_key"].t = "str"}}

RECURSIVE SortedKeys(_)
SortedKeys(keys) ==
    IF keys = {} THEN <<>>
    ELSE LET least == CHOOSE k \in keys : \A other \in keys \ {k} : StrLess(k, other)
         IN <<least>> \o SortedKeys(keys \ {least})

\* faulty variant: a row belongs to every group whose key starts with the row's URL
HasKey_ByUrl(row, key) ==
    LET start == row["page_url"].v \o Delimiter
    IN Len(start) <= Len(key) /\ SubSeq(key, 1, Len(start)) = start

HasKey(row, key) == row["dedup_key"] = Str(key)

GroupOf(frame, key) == SelectSeq(frame, LAMBDA row : HasKey(row, key))

GroupKeys(frame) == SortedKeys(KeysOf(frame))

\* result.drop(columns=[...]) applied to one row
DropTemp(row) == [col \in DOMAIN row \ temp_cols |-> row[col]]

(***************************************************************************)
(* The inputs: data frames of 1..MaxRecords rows.  A family fixes the      *)
(* columns of the frame and the values each column may hold; the rows of a *)
(* frame are drawn freely from its family.                                 *)
(***************************************************************************)
Rep(c, n) == [i \in 1..n |-> c]

Families ==
    LET u == Str(<<"u">>)
        v == Str(<<"v">>)
        uBar == Str(<<"u", "|", "|", "|">>)
        abc == Str(<<"a", "b", "c">>)
        barAbc == Str(<<"|", "|", "|", "a", "b", "c">>)
        mixed == Str(<<" ", "A", "b", " ", "\t", "C", "d", " ">>)
        plain == Str(<<"a", "b", " ", "c", "d">>)
        short == Str(<<"a", "b">>)
        longX == Str(Rep("a", PrefixLen) \o <<"x">>)
        longY == Str(Rep("a", PrefixLen) \o <<"y">>)
        aaa == Str(<<"a", "a", "a">>)
        bbb == Str(<<"b", "b", "b">>)
        ttt == Str(<<"t", "t", "t">>)
        yyy == Str(<<"y", "y", "y">>)
        zzz == Str(<<"z", "z", "z">>)
        x == Str(<<"x">>)
        y == Str(<<"y">>)
        r == Str(<<"r">>)
        blank == Str(<<" ", " ">>)
    IN {
        \* URLs and descriptions that hold the delimiter, missing URLs
        [page_url |-> {u, uBar, None}, product_name |-> {abc, barAbc, None}],
        \* case, whitespace, length of the description
        [page_url |-> {u, v}, product_title |-> {mixed, plain, short, longX, longY}],
        \* a frame that has a description column of its own
        [page_url |-> {u}, description |-> {aaa, bbb},
         product_title |-> {ttt, Str(<<>>)}, brand |-> {None, x}],
        \* one key, fields to be merged
        [page_url |-> {u}, brand |-> {None, x, y}, color |-> {NaN, blank, r}],
        \* candidate fields of different priority
        [page_url |-> {u}, product_summary |-> {short, zzz},
         product_title |-> {None, yyy}, product_name |-> {None, zzz}],
        \* scalar values of every kind
        [page_url |-> {u},
         price |-> {None, NaN, blank, PyInt("0"), PyBool("False"), Obj, x}],
        \* sequences
        [page_url |-> {u},
         tags |-> {List(<<>>), List(<<"nan">>), List(<<"nan", "nan">>), List(<<"x">>),
                   NdArray(<<>>), NdArray(<<"None">>), NdArray(<<"x", "y">>)}],
        \* an array in a candidate field
        [page_url |-> {u}, product_name |-> {abc, NdArray(<<"x", "y">>)}],
        \* a frame without the page_url column
        [product_name |-> {abc}, brand |-> {None, x}]
    }

RowsOf(family) ==
    {row \in [DOMAIN family -> UNION {family[col] : col \in DOMAIN family}] :
        \A col \in DOMAIN family : row[col] \in family[col]}

\* the frames pd.read_parquet may return
Frames ==
    UNION {UNION {[1..n -> RowsOf(family)] : n \in 1..MaxRecords} : family \in Families}

Columns(frame) == DOMAIN frame[1]

(***************************************************************************)
(* The script.                                                             *)
(***************************************************************************)
Init ==
    /\ df \in Frames
    /\ input = df
    /\ deduplicated = <<>>
    /\ processed = 0
    /\ result = <<>>
    /\ previous = <<>>
    /\ pass = 1
    /\ pc = "extract"

With(row, col, value) == (col :> value) @@ row

\* lines 29-35: df['description'] = [get_description(row) for each row]
ExtractDescriptions ==
    /\ pc = "extract"
    /\ \A i \in 1..Len(df) : ~DescriptionRaisesFrom(df[i], 1)
    /\ df' = [i \in 1..Len(df) |-> With(df[i], "description", Str(get_description(df[i])))]
    /\ pc' = "normalize"
    /\ UNCHANGED <<input, deduplicated, processed, result, previous, pass>>

\* lines 29-31 when get_description raises: the script ends with the exception
ExtractDescriptionsRaises ==
    /\ pc = "extract"
    /\ \E i \in 1..Len(df) : DescriptionRaisesFrom(df[i], 1)
    /\ pc' = "error"
    /\ UNCHANGED <<df, input, deduplicated, processed, result, previous, pass>>

\* line 45
NormalizeDescriptions ==
    /\ pc = "normalize"
    /\ df' = [i \in 1..Len(df) |->
                With(df[i], "normalized_desc", Str(normalize(df[i]["description"].v)))]
    /\ pc' = "keys"
    /\ UNCHANGED <<input, deduplicated, processed, result, previous, pass>>

\* lines 49-50
CreateKeys ==
    /\ pc = "keys"
    /\ "page_url" \in Columns(df)
    /\ df' = [i \in 1..Len(df) |->
                LET prefix == desc_prefix(df[i]["normalized_desc"])
                IN With(With(df[i], "desc_prefix", prefix),
                        "dedup_key", dedup_key(df[i]["page_url"], prefix))]
    /\ deduplicated' = <<>>
    /\ processed' = 0
    /\ pc' = "group"
    /\ UNCHANGED <<input, result, previous, pass>>

\* line 50 on a frame without the page_url column: KeyError
CreateKeysRaises ==
    /\ pc = "keys"
    /\ "page_url" \notin Columns(df)
    /\ pc' = "error"
    /\ UNCHANGED <<df, input, deduplicated, processed, result, previous, pass>>

\* lines 112-114: one iteration of the grouping loop
ProcessGroup ==
    /\ pc = "group"
    /\ processed < Len(GroupKeys(df))
    /\ deduplicated' =
          Append(deduplicated, merge_group(GroupOf(df, GroupKeys(df)[processed + 1])))
    /\ processed' = processed + 1
    /\ UNCHANGED <<df, input, result, previous, pass, pc>>

\* lines 122-124
CreateFinal ==
    /\ pc = "group"
    /\ processed = Len(GroupKeys(df))
    /\ deduplicated # <<>>
    /\ result' = [i \in 1..Len(deduplicated) |-> DropTemp(deduplicated[i])]
    /\ pc' = "done"
    /\ UNCHANGED <<df, input, deduplicated, processed, previous, pass>>

\* lines 122-123 when no group was found: the frame built from an empty list
\* has no columns, and drop raises KeyError
CreateFinalRaises ==
    /\ pc = "group"
    /\ processed = Len(GroupKeys(df))
    /\ deduplicated = <<>>
    /\ pc' = "error"
    /\ UNCHANGED <<df, input, deduplicated, processed, result, previous, pass>>

\* the script run again on the frame it produced
Rerun ==
    /\ pc = "done"
    /\ pass < MaxPasses
    /\ previous' = result
    /\ df' = result
    /\ input' = result
    /\ deduplicated' = <<>>
    /\ processed' = 0
    /\ result' = <<>>
    /\ pass' = pass + 1
    /\ pc' = "extract"

Next ==
    \/ ExtractDescriptions
    \/ ExtractDescriptionsRaises
    \/ NormalizeDescriptions
    \/ CreateKeys
    \/ CreateKeysRaises
    \/ ProcessGroup
    \/ CreateFinal
    \/ CreateFinalRaises
    \/ Rerun

Spec == Init /\ [][Next]_vars

(***************************************************************************)
(* Vocabulary of the properties.                                           *)
(***************************************************************************)
Keyed == pc \in {"group", "done"}

Range(seq) == {seq[i] : i \in 1..Len(seq)}

HasUrl(row) == "page_url" \in DOMAIN row /\ row["page_url"].t = "str"

AllHaveUrl(frame) == \A i \in 1..Len(frame) : HasUrl(frame[i])

\* the rows of df that carry the key of a merged row
Members(merged) == {i \in 1..Len(df) : df[i]["dedup_key"] = merged["dedup_key"]}

OriginalCols(row) == DOMAIN row \ temp_cols

NonEmptyCols(row) == {col \in OriginalCols(row) : ~is_empty(row[col])}

\* the first 20 characters of the normalized description of a row of df
PrefixOf(row) == Slice(row["normalized_desc"].v, PrefixLen)

RECURSIVE SumOver(_, _)
SumOver(keys, frame) ==
    IF keys = <<>> THEN 0
    ELSE Len(GroupOf(frame, Head(keys))) + SumOver(Tail(keys), frame)

(***************************************************************************)
(* C1  Idempotence: a second pass over the output of a pass produces the   *)
(* same set of records, and as many of them: nothing is merged again.      *)
(***************************************************************************)
C1_Idempotent ==
    (pc = "done" /\ pass > 1) =>
        /\ Range(result) = Range(previous)
        /\ Len(result) = Len(previous)

(***************************************************************************)
(* C2  Conservation: when every input record carries a URL, there is one   *)
(* output record per distinct key of the input, every input record is in   *)
(* exactly one group, and the group sizes sum to the number of records.    *)
(***************************************************************************)
C2_Conservation ==
    (Keyed /\ AllHaveUrl(input)) =>
        LET keys == GroupKeys(df) IN
        /\ \A i \in 1..Len(df) :
              Cardinality({k \in 1..Len(keys) : HasKey(df[i], keys[k])}) = 1
        /\ SumOver(keys, df) = Len(input)
        /\ pc = "done" =>
              Len(result) = Cardinality({df[i]["dedup_key"] : i \in 1..Len(df)})

C2_Witness ==
    /\ pc = "done"
    /\ AllHaveUrl(input)
    /\ Len(result) > 1
    /\ Len(result) < Len(input)

(***************************************************************************)
(* C3  Key totality: every record that carries a URL gets a key, and two   *)
(* such records get the same key exactly when their URLs are equal and the *)
(* 20-character prefixes of their normalized descriptions are equal.       *)
(***************************************************************************)
C3_KeyTotality ==
    Keyed =>
        \A i, j \in {n \in 1..Len(df) : HasUrl(df[n])} :
            /\ df[i]["dedup_key"].t = "str"
            /\ (df[i]["dedup_key"] = df[j]["dedup_key"]) <=>
                  (/\ df[i]["page_url"] = df[j]["page_url"]
                   /\ PrefixOf(df[i]) = PrefixOf(df[j]))

(***************************************************************************)
(* C4  Missing URL is fatal: a run whose input holds a record without a    *)
(* URL (column absent, or value null) produces no output.                  *)
(***************************************************************************)
C4_MissingUrlFatal ==
    (\E i \in 1..Len(input) : ~HasUrl(input[i])) => (pc # "done" /\ result = <<>>)

(***************************************************************************)
(* C8  Key construction: the key of a record is its URL, the delimiter     *)
(* '|||', and the first 20 characters of its normalized description, or    *)
(* the sentinel 'NO_DESC' when the normalized description is empty.        *)
(***************************************************************************)
C8_KeyWithSentinel ==
    Keyed =>
        \A i \in {n \in 1..Len(df) : HasUrl(df[n])} :
            df[i]["dedup_key"] =
                Str(df[i]["page_url"].v \o Delimiter \o
                    (IF df[i]["normalized_desc"].v = <<>> THEN Sentinel ELSE PrefixOf(df[i])))

(***************************************************************************)
(* C5  Unchanged singletons and schema preservation: every output record   *)
(* has exactly the columns of the input frame, and the output record of a  *)
(* group of one record is that input record, field for field.              *)
(***************************************************************************)
C5_SchemaPreserved ==
    pc = "done" =>
        \A k \in 1..Len(result) :
            /\ DOMAIN result[k] = Columns(input)
            /\ Cardinality(Members(deduplicated[k])) = 1 =>
                  \E i \in Members(deduplicated[k]) : result[k] = input[i]

(***************************************************************************)
(* C6  Completeness monotonicity: the record merge_group returns for a     *)
(* group of more than one record has at least as many non-empty original   *)
(* fields as any record of the group.                                      *)
(***************************************************************************)
C6_CompletenessMonotone ==
    Keyed =>
        \A k \in 1..Len(deduplicated) :
            Cardinality(Members(deduplicated[k])) > 1 =>
                \A i \in Members(deduplicated[k]) :
                    Cardinality(NonEmptyCols(deduplicated[k])) >=
                        Cardinality(NonEmptyCols(df[i]))

\* a merged record that is more complete than every record of its group
C6_Witness ==
    /\ Keyed
    /\ \E k \in 1..Len(deduplicated) :
          /\ Cardinality(Members(deduplicated[k])) > 1
          /\ \A i \in Members(deduplicated[k]) :
                Cardinality(NonEmptyCols(deduplicated[k])) >
                    Cardinality(NonEmptyCols(df[i]))

(***************************************************************************)
(* C7  No data invention: a non-empty value of an original field of a      *)
(* merged record is the value of that field in a record of its group.      *)
(***************************************************************************)
C7_NoInvention ==
    Keyed =>
        \A k \in 1..Len(deduplicated) :
            \A col \in OriginalCols(deduplicated[k]) :
                ~is_empty(deduplicated[k][col]) =>
                    \E i \in Members(deduplicated[k]) : df[i][col] = deduplicated[k][col]

\* a merged record that holds values of two different records of its group
C7_Witness ==
    /\ Keyed
    /\ \E k \in 1..Len(deduplicated) :
          /\ Cardinality(Members(deduplicated[k])) > 1
          /\ \A i \in Members(deduplicated[k]) :
                \E col \in OriginalCols(deduplicated[k]) :
                    /\ ~is_empty(deduplicated[k][col])
                    /\ df[i][col] # deduplicated[k][col]

(***************************************************************************)
(* C9  Merge result: the base of a group of more than one record is its    *)
(* first record of maximal count; a field of the merged record holds the   *)
(* base's value if that is non-empty, else the value of the first other    *)
(* record whose value is non-empty, else the base's value.                 *)
(***************************************************************************)
Least(indices) == CHOOSE i \in indices : \A j \in indices : i <= j

ExpectedBase(members) ==
    Least({i \in members :
        \A j \in members : Cardinality(NonEmptyCols(df[j])) <= Cardinality(NonEmptyCols(df[i]))})

ExpectedValue(members, col) ==
    LET base == ExpectedBase(members)
        donors == {i \in members \ {base} : ~is_empty(df[i][col])}
    IN IF ~is_empty(df[base][col]) \/ donors = {}
          THEN df[base][col]
          ELSE df[Least(donors)][col]

C9_MergeResult ==
    Keyed =>
        \A k \in 1..Len(deduplicated) :
            Cardinality(Members(deduplicated[k])) > 1 =>
                \A col \in OriginalCols(deduplicated[k]) :
                    deduplicated[k][col] = ExpectedValue(Members(deduplicated[k]), col)

\* a group where two records tie for the maximal count and differ, and where
\* two records other than the base offer different values for a field the
\* base leaves empty
C9_Witness ==
    /\ Keyed
    /\ \E k \in 1..Len(deduplicated) :
          LET members == Members(deduplicated[k])
              base == ExpectedBase(members)
          IN /\ \E j \in members \ {base} :
                   /\ Cardinality(NonEmptyCols(df[j])) = Cardinality(NonEmptyCols(df[base]))
                   /\ DropTemp(df[j]) # DropTemp(df[base])
             /\ \E col \in OriginalCols(deduplicated[k]) :
                   /\ is_empty(df[base][col])
                   /\ \E i, j \in members \ {base} :
                         /\ ~is_empty(df[i][col])
                         /\ ~is_empty(df[j][col])
                         /\ df[i][col] # df[j][col]

(***************************************************************************)
(* C10  Emptiness test: is_empty is true of the null value, of a string    *)
(* that is empty after trimming, of a sequence of no elements and of a     *)
(* scalar missing marker, and false of every other value.                  *)
(***************************************************************************)
C10_EmptinessTest ==
    \A i \in 1..Len(df) :
        \A col \in OriginalCols(df[i]) :
            is_empty(df[i][col]) <=>
                \/ df[i][col].t \in {"none", "nan"}
                \/ df[i][col].t = "str" /\ Strip(df[i][col].v) = <<>>
                \/ df[i][col].t \in {"list", "ndarray"} /\ Len(df[i][col].v) = 0

====
